---------------------------- MODULE Spec2Model ----------------------------
(***************************************************************************)
(* Model of the open-source-contributions scripts:                         *)
(*   update_database.py        refresh: fetch, merge, save                 *)
(*   generate_contributions.py render: load, filter, group, emit           *)
(*   update_contributions.py   update: refresh then render                 *)
(*                                                                         *)
(* Python strings are sequences of one-character strings, Python dicts are *)
(* functions whose DOMAIN is the set of keys present, JSON null is None.   *)
(***************************************************************************)
EXTENDS Integers, Sequences, FiniteSets, TLC

VARIABLES
    db_exists,        \* database/prs.json, repos.json and metadata.json are on disk
    db_prs,           \* content of database/prs.json
    db_repos,         \* content of database/repos.json
    db_meta,          \* content of database/metadata.json (NoMeta when absent)
    contributions_md, \* content of contributions.md (NoFile when never written)
    now,              \* the wall clock read by datetime.now() in save_database
    proc,             \* the last script process run: its name, exit code, failed gh calls
    pc,               \* position of update_contributions.main
    steps,            \* the scripts main has run in this invocation, with their run_script result
    exit_code,        \* the value main returned (NoExit while it has not)
    existing_prs,     \* merge_prs: first argument of the last call
    new_prs,          \* merge_prs: second argument of the last call
    existing_repos,   \* merge_repos: first argument of the last call
    new_repos,        \* merge_repos: second argument of the last call
    merged,           \* result of the last merge / categorize / generate call under test
    phase             \* position of the pure-function harnesses

vars == <<db_exists, db_prs, db_repos, db_meta, contributions_md, now, proc, pc,
          steps, exit_code, existing_prs, new_prs, existing_repos, new_repos,
          merged, phase>>

-----------------------------------------------------------------------------
(* Bounds of the model *)

\* longest list one PR search returns in the refresh machine
MaxFetch == 1
\* longest list the repository listing returns in the refresh machine
MaxRepoFetch == 2
\* number of saves (clock ticks) in one behaviour of the refresh machine
MaxClock == 1
\* longest lists drawn for the merge functions
MaxMerge == 3
\* longest PR list drawn for the report builder
MaxRenderPRs == 3
\* longest list of PRs to flagship repositories drawn for the report builder
MaxFlagshipPRs == 4
\* longest list of PRs to the repositories of a flagship organization drawn for the
\* report builder
MaxOtherPRs == 3
\* longest PR list and longest repository list drawn with optional fields missing
MaxFieldPRs == 2
MaxFieldRepos == 2
\* longest repository list drawn for categorize_repositories
MaxCatRepos == 2

-----------------------------------------------------------------------------
(* Python values *)

\* JSON null / Python None where a string is expected
None == <<"None">>
\* last_update when no metadata was ever saved (None, printed as 'Never')
Never == 0
NoMeta == [absent |-> TRUE]
NoExit == -1
\* the value standing for "the call ended with an uncaught exception",
\* where a dict was to be returned
Raised == [raised |-> TRUE]

\* dict.get(key, default)
Get(d, k, default) == IF k \in DOMAIN d THEN d[k] ELSE default

\* dict.update(other)
DictUpdate(d, other) ==
    [k \in DOMAIN d \cup DOMAIN other |-> IF k \in DOMAIN other THEN other[k] ELSE d[k]]

\* all sequences over S of length at most n
SeqsUpTo(S, n) == UNION {[1..k -> S] : k \in 0..n}

Range(s) == {s[i] : i \in 1..Len(s)}

Min(a, b) == IF a <= b THEN a ELSE b

\* s[:n]
Take(s, n) == SubSeq(s, 1, Min(n, Len(s)))

-----------------------------------------------------------------------------
(* Python str operations on character sequences *)

\* str.startswith(prefix)
StartsWith(s, p) == Len(p) <= Len(s) /\ SubSeq(s, 1, Len(p)) = p

\* str.endswith(suffix)
EndsWith(s, p) == Len(p) <= Len(s) /\ SubSeq(s, Len(s) - Len(p) + 1, Len(s)) = p

\* sub in s
Contains(s, sub) ==
    \E i \in 0..(Len(s) - Len(sub)) : SubSeq(s, i + 1, i + Len(sub)) = sub

LowerChar(c) ==
    CASE c = "A" -> "a" [] c = "B" -> "b" [] c = "C" -> "c" [] c = "D" -> "d"
      [] c = "E" -> "e" [] c = "F" -> "f" [] c = "G" -> "g" [] c = "H" -> "h"
      [] c = "I" -> "i" [] c = "J" -> "j" [] c = "K" -> "k" [] c = "L" -> "l"
      [] c = "M" -> "m" [] c = "N" -> "n" [] c = "O" -> "o" [] c = "P" -> "p"
      [] c = "Q" -> "q" [] c = "R" -> "r" [] c = "S" -> "s" [] c = "T" -> "t"
      [] c = "U" -> "u" [] c = "V" -> "v" [] c = "W" -> "w" [] c = "X" -> "x"
      [] c = "Y" -> "y" [] c = "Z" -> "z" [] OTHER -> c

\* str.lower()
Lower(s) == [i \in 1..Len(s) |-> LowerChar(s[i])]

\* index of the first occurrence of character c in s, 0 when there is none
RECURSIVE FindChar(_, _, _)
FindChar(s, c, i) ==
    IF i > Len(s) THEN 0 ELSE IF s[i] = c THEN i ELSE FindChar(s, c, i + 1)

\* s.split('/')[0]
SplitFirst(s) ==
    LET i == FindChar(s, "/", 1) IN IF i = 0 THEN s ELSE SubSeq(s, 1, i - 1)

\* code points of the characters that occur in timestamps
Ord(c) ==
    CASE c = "+" -> 43 [] c = "-" -> 45 [] c = "0" -> 48 [] c = "1" -> 49
      [] c = "2" -> 50 [] c = "3" -> 51 [] c = "4" -> 52 [] c = "5" -> 53
      [] c = "6" -> 54 [] c = "7" -> 55 [] c = "8" -> 56 [] c = "9" -> 57
      [] c = ":" -> 58 [] c = "T" -> 84 [] c = "Z" -> 90 [] OTHER -> 127

\* a < b for Python strings (lexicographic by code point)
RECURSIVE StrLessFrom(_, _, _)
StrLessFrom(a, b, i) ==
    IF i > Len(b) THEN FALSE
    ELSE IF i > Len(a) THEN TRUE
    ELSE IF a[i] = b[i] THEN StrLessFrom(a, b, i + 1)
    ELSE Ord(a[i]) < Ord(b[i])

StrLess(a, b) == StrLessFrom(a, b, 1)

-----------------------------------------------------------------------------
(* update_database.py *)

\* json.loads results: a JSON array or a JSON object
PyList(items) == [type |-> "list", items |-> items]
PyDict == [type |-> "dict"]
\* stdout of a command that is not JSON
Garbage == [type |-> "garbage"]

\* whether run_gh_command takes one of its two error branches on this result
GhFailed(result) == result.returncode # 0 \/ result.stdout = Garbage

run_gh_command(result) ==
    IF result.returncode # 0 THEN PyList(<<>>)
    ELSE IF result.stdout = Garbage THEN PyList(<<>>)
    ELSE result.stdout

\* the loop of merge_prs over new_prs[i..]; existing_urls is the set built before the loop
RECURSIVE merge_prs_loop(_, _, _, _)
merge_prs_loop(acc, existing_urls, new, i) ==
    IF i > Len(new) THEN acc
    ELSE IF Get(new[i], "url", None) \notin existing_urls
         THEN merge_prs_loop(Append(acc, new[i]), existing_urls, new, i + 1)
         ELSE merge_prs_loop(acc, existing_urls, new, i + 1)

\* a merge_prs that keeps only the incoming copy of a URL it already holds
merge_prs_replacing(existing, new) ==
    LET new_urls == {Get(new[i], "url", None) : i \in 1..Len(new)}
    IN  SelectSeq(existing, LAMBDA pr : Get(pr, "url", None) \notin new_urls) \o new

merge_prs(existing, new) ==
    LET existing_urls == {Get(existing[i], "url", None) : i \in 1..Len(existing)}
    IN  merge_prs_loop(existing, existing_urls, new, 1)

\* existing_dict of merge_repos: name -> position of the record the dict holds
\* (a later record of the same name replaces an earlier one in the comprehension)
ExistingDict(existing) ==
    [n \in {Get(existing[i], "name", None) : i \in 1..Len(existing)} |->
        CHOOSE i \in 1..Len(existing) :
            /\ Get(existing[i], "name", None) = n
            /\ \A j \in (i + 1)..Len(existing) : Get(existing[j], "name", None) # n]

\* the loop of merge_repos over new_repos[i..]
RECURSIVE merge_repos_loop(_, _, _, _)
merge_repos_loop(acc, existing_dict, new, i) ==
    IF i > Len(new) THEN acc
    ELSE LET repo_name == Get(new[i], "name", None)
         IN  IF repo_name \in DOMAIN existing_dict
             THEN merge_repos_loop(
                      [acc EXCEPT ![existing_dict[repo_name]] = DictUpdate(@, new[i])],
                      existing_dict, new, i + 1)
             ELSE merge_repos_loop(Append(acc, new[i]), existing_dict, new, i + 1)

\* a merge_repos that replaces the whole stored record by the incoming one
RECURSIVE merge_repos_loop_replacing(_, _, _, _)
merge_repos_loop_replacing(acc, existing_dict, new, i) ==
    IF i > Len(new) THEN acc
    ELSE LET repo_name == Get(new[i], "name", None)
         IN  IF repo_name \in DOMAIN existing_dict
             THEN merge_repos_loop_replacing(
                      [acc EXCEPT ![existing_dict[repo_name]] = new[i]],
                      existing_dict, new, i + 1)
             ELSE merge_repos_loop_replacing(Append(acc, new[i]), existing_dict, new, i + 1)

merge_repos_replacing(existing, new) ==
    merge_repos_loop_replacing(existing, ExistingDict(existing), new, 1)

merge_repos(existing, new) ==
    merge_repos_loop(existing, ExistingDict(existing), new, 1)

\* load_database of update_database.py: absent files are empty collections
load_database_update ==
    [prs |-> IF db_exists THEN db_prs ELSE <<>>,
     repos |-> IF db_exists THEN db_repos ELSE <<>>,
     last_update |-> IF db_exists THEN Get(db_meta, "last_update", Never) ELSE Never]

\* the metadata save_database writes
Metadata(db, t) ==
    [last_update |-> t, total_prs |-> Len(db.prs), total_repos |-> Len(db.repos)]

\* fetch_new_data: (all_prs, repos), or Raised when closed_prs + open_prs raises
\* TypeError (one of them is a JSON object, not a list)
fetch_new_data(closed_res, open_res, repos_res) ==
    LET closed_prs == run_gh_command(closed_res)
        open_prs == run_gh_command(open_res)
    IN  IF closed_prs.type # "list" \/ open_prs.type # "list" THEN Raised
        ELSE [all_prs |-> closed_prs.items \o open_prs.items,
              repos |-> run_gh_command(repos_res)]

\* update_database: the db it saves, or Raised when it ends with an exception
\* (before save_database, so that nothing is written)
update_database(closed_res, open_res, repos_res) ==
    LET db == load_database_update
        fetched == fetch_new_data(closed_res, open_res, repos_res)
    IN  IF fetched = Raised THEN Raised
        \* merge_repos iterates the keys of a JSON object: str has no .get
        ELSE IF fetched.repos.type # "list" THEN Raised
        ELSE [prs |-> merge_prs(db.prs, fetched.all_prs),
              repos |-> merge_repos(db.repos, fetched.repos.items)]

-----------------------------------------------------------------------------
(* String literals of the scripts *)

S_oameye_slash == <<"o", "a", "m", "e", "y", "e", "/">>
S_oameye == <<"o", "a", "m", "e", "y", "e">>
S_Unknown == <<"U", "n", "k", "n", "o", "w", "n">>
S_No_title == <<"N", "o", " ", "t", "i", "t", "l", "e">>
S_hash == <<"#">>
S_No_description == <<"N", "o", " ", "d", "e", "s", "c", "r", "i", "p", "t", "i", "o", "n">>
S_jl == <<".", "j", "l">>
S_slash == <<"/">>
S_merged == <<"m", "e", "r", "g", "e", "d">>
S_open == <<"o", "p", "e", "n">>
S_closed == <<"c", "l", "o", "s", "e", "d">>
S_github_io == <<"g", "i", "t", "h", "u", "b", ".", "i", "o">>
S_website == <<"w", "e", "b", "s", "i", "t", "e">>
S_hugo == <<"h", "u", "g", "o">>
S_QuantumEngineeredSystems == <<"Q", "u", "a", "n", "t", "u", "m", "E", "n", "g", "i", "n", "e", "e", "r", "e", "d", "S", "y", "s", "t", "e", "m", "s">>
S_JuliaDynamics == <<"J", "u", "l", "i", "a", "D", "y", "n", "a", "m", "i", "c", "s">>
S_qojulia == <<"q", "o", "j", "u", "l", "i", "a">>
S_CriticalTransitions_jl == <<"C", "r", "i", "t", "i", "c", "a", "l", "T", "r", "a", "n", "s", "i", "t", "i", "o", "n", "s", ".", "j", "l">>
S_SecondQuantizedAlgebra_jl == <<"S", "e", "c", "o", "n", "d", "Q", "u", "a", "n", "t", "i", "z", "e", "d", "A", "l", "g", "e", "b", "r", "a", ".", "j", "l">>
S_utc_offset == <<"+", "0", "0", ":", "0", "0">>

DocKeywords ==
    <<<<"t", "u", "t", "o", "r", "i", "a", "l">>,
      <<"d", "o", "c", "s">>,
      <<"d", "o", "c", "u", "m", "e", "n", "t", "a", "t", "i", "o", "n">>,
      <<"g", "u", "i", "d", "e">>>>
ResearchKeywords ==
    <<<<"r", "e", "s", "e", "a", "r", "c", "h">>,
      <<"p", "a", "p", "e", "r">>,
      <<"p", "a", "r", "a", "m", "e", "t", "r", "o", "n">>,
      <<"q", "u", "a", "n", "t", "u", "m">>,
      <<"o", "s", "c", "i", "l", "l", "a", "t", "o", "r">>,
      <<"h", "o", "p", "f">>>>
ToolKeywords ==
    <<<<"t", "o", "o", "l">>,
      <<"u", "t", "i", "l", "i", "t", "y">>,
      <<"e", "n", "g", "i", "n", "e">>,
      <<"z", "o", "t", "e", "r", "o">>,
      <<"h", "o", "m", "e", "b", "r", "e", "w">>>>

-----------------------------------------------------------------------------
(* Python library calls used by generate_contributions.py *)

\* sorted(s, key=..., reverse=True), less[i][j] being key(s[i]) < key(s[j]): the sort
\* is stable, also under reverse=True, so records of equal key keep their order
SortedDesc(s, less) ==
    LET n == Len(s)
        pos == [i \in 1..n |->
                   1 + Cardinality({j \in 1..n : less[i][j]})
                     + Cardinality({j \in 1..(i - 1) : ~less[j][i] /\ ~less[i][j]})]
    IN  [p \in 1..n |-> s[CHOOSE i \in 1..n : pos[i] = p]]

\* the concatenation of a sequence of sequences
RECURSIVE Flatten(_)
Flatten(ss) == IF ss = <<>> THEN <<>> ELSE Head(ss) \o Flatten(Tail(ss))

\* s.replace('Z', '+00:00')
ReplaceZ(s) ==
    Flatten([i \in 1..Len(s) |-> IF s[i] = "Z" THEN S_utc_offset ELSE <<s[i]>>])

IsDigit(c) == c \in {"0", "1", "2", "3", "4", "5", "6", "7", "8", "9"}
DigitVal(c) == Ord(c) - 48
DigitChar(n) == <<"0", "1", "2", "3", "4", "5", "6", "7", "8", "9">>[n + 1]

\* the number written by the digits s[i..j], -1 when one of them is no digit
RECURSIVE ParseInt(_, _, _)
ParseInt(s, i, j) ==
    IF i > j THEN 0
    ELSE IF ~IsDigit(s[j]) THEN -1
    ELSE LET rest == ParseInt(s, i, j - 1)
         IN  IF rest < 0 THEN -1 ELSE 10 * rest + DigitVal(s[j])

DaysInMonth(y, m) ==
    IF m \in {4, 6, 9, 11} THEN 30
    ELSE IF m # 2 THEN 31
    ELSE IF (y % 4 = 0 /\ y % 100 # 0) \/ y % 400 = 0 THEN 29 ELSE 28

\* what stands for the ValueError of datetime.fromisoformat
DateError == <<"ValueError">>
NoDate == [valid |-> FALSE]

\* datetime.fromisoformat for the forms YYYY-MM-DD, YYYY-MM-DDTHH:MM:SS and
\* YYYY-MM-DDTHH:MM:SS+00:00; NoDate for any other string (the empty one included)
fromisoformat(s) ==
    LET year == ParseInt(s, 1, 4)
        month == ParseInt(s, 6, 7)
        day == ParseInt(s, 9, 10)
        dateOk == /\ Len(s) >= 10
                  /\ s[5] = "-" /\ s[8] = "-"
                  /\ year >= 1
                  /\ month \in 1..12
                  /\ day \in 1..DaysInMonth(year, month)
        timeOk == /\ Len(s) >= 19
                  /\ s[11] = "T" /\ s[14] = ":" /\ s[17] = ":"
                  /\ ParseInt(s, 12, 13) \in 0..23
                  /\ ParseInt(s, 15, 16) \in 0..59
                  /\ ParseInt(s, 18, 19) \in 0..59
        zoneOk == Len(s) = 25 /\ SubSeq(s, 20, 25) = S_utc_offset
    IN  IF dateOk /\ (Len(s) = 10 \/ (timeOk /\ (Len(s) = 19 \/ zoneOk)))
        THEN [valid |-> TRUE, year |-> year, month |-> month, day |-> day]
        ELSE NoDate

\* date.strftime('%Y-%m-%d')
strftime(d) ==
    << DigitChar(d.year \div 1000), DigitChar((d.year \div 100) % 10),
       DigitChar((d.year \div 10) % 10), DigitChar(d.year % 10), "-",
       DigitChar(d.month \div 10), DigitChar(d.month % 10), "-",
       DigitChar(d.day \div 10), DigitChar(d.day % 10) >>

\* .strftime('%Y-%m-%d') on the parsed date, ValueError when the parse raised
DateString(d) == IF d = NoDate THEN DateError ELSE strftime(d)

\* datetime.fromisoformat(x.replace('Z', '+00:00')).strftime('%Y-%m-%d')
created_date(createdAt) == DateString(fromisoformat(ReplaceZ(createdAt)))

-----------------------------------------------------------------------------
(* generate_contributions.py: categorize_repositories *)

EmptyDict == <<>>

\* the keys of the categories dict, in the order the dict is built
Categories ==
    <<"Julia Packages", "Research Projects", "Tools & Utilities",
      "Documentation & Tutorials", "Personal Projects">>

\* any(keyword in name.lower() or keyword in description.lower() for keyword in kws),
\* from keyword i on: "True", "False", or "raise" when description.lower() is
\* evaluated on None (AttributeError)
RECURSIVE AnyKeyword(_, _, _, _)
AnyKeyword(name, description, kws, i) ==
    IF i > Len(kws) THEN "False"
    ELSE IF Contains(Lower(name), kws[i]) THEN "True"
    ELSE IF description = None THEN "raise"
    ELSE IF Contains(Lower(description), kws[i]) THEN "True"
    ELSE AnyKeyword(name, description, kws, i + 1)

\* a loop body that tests the documentation rule before the .jl rule
ClassifyDocFirst(repo) ==
    IF Get(repo, "isPrivate", FALSE) \/ Get(repo, "isFork", FALSE) THEN "skip"
    ELSE IF "name" \notin DOMAIN repo THEN "raise"
    ELSE LET name == repo["name"]
             description == Get(repo, "description", <<>>)
             doc == AnyKeyword(name, description, DocKeywords, 1)
             research == AnyKeyword(name, description, ResearchKeywords, 1)
             tool == AnyKeyword(name, description, ToolKeywords, 1)
         IN  IF doc = "raise" THEN "raise"
             ELSE IF doc = "True" THEN "Documentation & Tutorials"
             ELSE IF EndsWith(name, S_jl) THEN "Julia Packages"
             ELSE IF research = "raise" THEN "raise"
             ELSE IF research = "True" THEN "Research Projects"
             ELSE IF tool = "raise" THEN "raise"
             ELSE IF tool = "True" THEN "Tools & Utilities"
             ELSE IF \/ Contains(name, S_github_io)
                     \/ Contains(name, S_website)
                     \/ Contains(name, S_hugo) THEN "Personal Projects"
             ELSE "none"

\* the branch of the loop body one repository takes: "skip" (continue), a category,
\* "none" (no branch), or "raise" (KeyError on repo['name'], AttributeError on None)
Classify(repo) ==
    IF Get(repo, "isPrivate", FALSE) \/ Get(repo, "isFork", FALSE) THEN "skip"
    ELSE IF "name" \notin DOMAIN repo THEN "raise"
    ELSE LET name == repo["name"]
             description == Get(repo, "description", <<>>)
             doc == AnyKeyword(name, description, DocKeywords, 1)
             research == AnyKeyword(name, description, ResearchKeywords, 1)
             tool == AnyKeyword(name, description, ToolKeywords, 1)
         IN  IF EndsWith(name, S_jl) THEN "Julia Packages"
             ELSE IF doc = "raise" THEN "raise"
             ELSE IF doc = "True" THEN "Documentation & Tutorials"
             ELSE IF research = "raise" THEN "raise"
             ELSE IF research = "True" THEN "Research Projects"
             ELSE IF tool = "raise" THEN "raise"
             ELSE IF tool = "True" THEN "Tools & Utilities"
             ELSE IF \/ Contains(name, S_github_io)
                     \/ Contains(name, S_website)
                     \/ Contains(name, S_hugo) THEN "Personal Projects"
             ELSE "none"

\* the categories dict, or Raised
categorize_repositories(repos) ==
    IF \E i \in 1..Len(repos) : Classify(repos[i]) = "raise" THEN Raised
    ELSE [c \in Range(Categories) |-> SelectSeq(repos, LAMBDA r : Classify(r) = c)]

-----------------------------------------------------------------------------
(* generate_contributions.py: generate_markdown *)

\* A line of the document is a record: its kind and the values formatted into it.
TextLine(k) == [kind |-> k]
Blank == TextLine("")
\* stands for the exception that ends generate_markdown where a line was to be built
RaisedLine == TextLine("raise")
\* what generate_markdown returns when load_database returns None
NoneDoc == <<TextLine("None")>>
RaisedDoc == <<RaisedLine>>
\* contributions.md when it was never written
NoFile == <<TextLine("no file")>>

NameWithOwner(pr, default) == Get(Get(pr, "repository", EmptyDict), "nameWithOwner", default)
RepoName(pr) == Get(Get(pr, "repository", EmptyDict), "name", S_Unknown)
CreatedAt(x) == Get(x, "createdAt", <<>>)

\* key=lambda x: x.get('createdAt', '')
CreatedLess(a, b) == StrLess(CreatedAt(a), CreatedAt(b))
CreatedOrder(s) == [i \in 1..Len(s) |-> [j \in 1..Len(s) |-> CreatedLess(s[i], s[j])]]

\* "- **[{repo_name}]({url})** - {title} *(merged {created_date})*"
PrLineDated(pr, date) ==
    IF date = DateError THEN RaisedLine
    ELSE [kind |-> "pr",
          repo_name |-> NameWithOwner(pr, S_Unknown),
          title |-> Get(pr, "title", S_No_title),
          url |-> Get(pr, "url", S_hash),
          created_date |-> date]

\* lines 107-112 for one PR; an unparsable createdAt raises ValueError at line 110
PrLine(pr) == PrLineDated(pr, created_date(CreatedAt(pr)))

PrLines(prs) == [i \in 1..Len(prs) |-> PrLine(prs[i])]

\* an external_closed_prs that does not test the state
external_closed_prs_any_state(all_prs) ==
    LET kept == SelectSeq(all_prs, LAMBDA pr :
                    ~StartsWith(NameWithOwner(pr, <<>>), S_oameye_slash))
    IN  SortedDesc(kept, CreatedOrder(kept))

\* the list comprehension and sort of lines 85-88
external_closed_prs(all_prs) ==
    LET kept == SelectSeq(all_prs, LAMBDA pr :
                    /\ ~StartsWith(NameWithOwner(pr, <<>>), S_oameye_slash)
                    /\ Get(pr, "state", None) = S_merged)
    IN  SortedDesc(kept, CreatedOrder(kept))

\* key=lambda x: (x.get('stargazerCount', 0), x.get('createdAt', ''))
StarsCreatedLess(a, b) ==
    LET sa == Get(a, "stargazerCount", 0)
        sb == Get(b, "stargazerCount", 0)
    IN  sa < sb \/ (sa = sb /\ CreatedLess(a, b))
StarsCreatedOrder(s) == [i \in 1..Len(s) |-> [j \in 1..Len(s) |-> StarsCreatedLess(s[i], s[j])]]

\* the lines of one repository of a category; repo['url'] raises KeyError when absent
RepoBlock(repo) ==
    LET description == Get(repo, "description", S_No_description)
        stars == Get(repo, "stargazerCount", 0)
        date == created_date(CreatedAt(repo))
    IN  IF "url" \notin DOMAIN repo \/ date = DateError THEN <<RaisedLine>>
        ELSE <<[kind |-> "repo", name |-> repo["name"], url |-> repo["url"],
                star_badge |-> IF stars > 0 THEN stars ELSE 0]>>
             \o (IF description # None /\ description # <<>>
                 THEN <<[kind |-> "description", text |-> description]>> ELSE <<>>)
             \o <<[kind |-> "created", created_date |-> date], Blank, TextLine("#"), Blank>>

CategoryBlock(category, category_repos) ==
    IF category_repos = <<>> THEN <<>>
    ELSE LET sorted == SortedDesc(category_repos, StarsCreatedOrder(category_repos))
         IN  <<[kind |-> "h3", category |-> category], Blank>>
             \o Flatten([i \in 1..Len(sorted) |-> RepoBlock(sorted[i])])

\* the section "My Open Source Projects" for the repositories left after line 82
ProjectsSection(repos) ==
    LET categorized_repos == categorize_repositories(repos)
    IN  IF categorized_repos = Raised THEN <<RaisedLine>>
        ELSE <<TextLine("h2 projects"), Blank>>
             \o Flatten([i \in 1..Len(Categories) |->
                    CategoryBlock(Categories[i], categorized_repos[Categories[i]])])

\* repo_full_name.split('/')[0] if '/' in repo_full_name else 'Unknown'
OrgName(pr) ==
    LET repo_full_name == NameWithOwner(pr, S_Unknown)
    IN  IF Contains(repo_full_name, S_slash) THEN SplitFirst(repo_full_name) ELSE S_Unknown

\* the values of s[1..i], each once, in the order of their first occurrence
\* (the key order of a dict filled in that order)
RECURSIVE KeyOrder(_, _)
KeyOrder(s, i) ==
    IF i = 0 THEN <<>>
    ELSE LET before == KeyOrder(s, i - 1)
         IN  IF s[i] \in Range(before) THEN before ELSE Append(before, s[i])

\* org_prs.items(): the organizations in the order they were first met, with their PRs
org_prs(all_external_prs) ==
    LET kept == SelectSeq(all_external_prs, LAMBDA pr : OrgName(pr) # S_oameye)
        names == [i \in 1..Len(kept) |-> OrgName(kept[i])]
        orgs == KeyOrder(names, Len(names))
    IN  [i \in 1..Len(orgs) |->
            [org |-> orgs[i], prs |-> SelectSeq(kept, LAMBDA pr : OrgName(pr) = orgs[i])]]

\* key=lambda x: len(x[1])
LenLess(a, b) == Len(a.prs) < Len(b.prs)
LenOrder(s) == [i \in 1..Len(s) |-> [j \in 1..Len(s) |-> LenLess(s[i], s[j])]]

\* repo_counts.items(): the repository names of prs in first-met order, with counts
repo_counts(prs) ==
    LET names == [i \in 1..Len(prs) |-> RepoName(prs[i])]
        repos == KeyOrder(names, Len(names))
    IN  [i \in 1..Len(repos) |->
            [repo |-> repos[i],
             count |-> Cardinality({j \in 1..Len(names) : names[j] = repos[i]})]]

\* key=lambda x: x[1]
CountLess(a, b) == a.count < b.count
CountOrder(s) == [i \in 1..Len(s) |-> [j \in 1..Len(s) |-> CountLess(s[i], s[j])]]

\* external_closed_prs[:10]
RecentLimit == 10
\* sorted(prs, ...)[:5] of the QuantumEngineeredSystems branch
SummaryLimit == 5
\* a flagship list cut like the list of the QuantumEngineeredSystems branch
FlagshipLimitAsSummary == SummaryLimit

\* sorted(..., reverse=True)[:3] of the JuliaDynamics and qojulia branches
FlagshipLimit == 3

\* the QuantumEngineeredSystems branch
SummaryBlock(prs) ==
    LET counts == repo_counts(prs)
        breakdown == SortedDesc(counts, CountOrder(counts))
        recent_prs == Take(SortedDesc(prs, CreatedOrder(prs)), SummaryLimit)
    IN  <<TextLine("maintainer"),
          [kind |-> "merged count", n |-> Len(prs)],
          [kind |-> "repositories", n |-> Len(counts)]>>
        \o [i \in 1..Len(breakdown) |->
               [kind |-> "repo count", repo |-> breakdown[i].repo, n |-> breakdown[i].count]]
        \o <<Blank, TextLine("recent contributions")>>
        \o PrLines(recent_prs)

\* a flagship block that reports merged_count, the number of PRs of the organization
FlagshipBlockCountingAll(org, flagship, prs) ==
    LET flagship_prs == SelectSeq(prs, LAMBDA pr : RepoName(pr) = flagship)
        other_prs == SelectSeq(prs, LAMBDA pr : RepoName(pr) # flagship)
        recent_prs == Take(SortedDesc(flagship_prs, CreatedOrder(flagship_prs)), FlagshipLimit)
    IN  (IF flagship_prs # <<>>
         THEN <<[kind |-> "flagship", repo |-> flagship, n |-> Len(prs)],
                Blank,
                [kind |-> "flagship recent", repo |-> flagship]>>
              \o PrLines(recent_prs) \o <<Blank>>
         ELSE <<>>)
        \o (IF other_prs # <<>>
            THEN <<[kind |-> "other contributions", org |-> org], Blank>>
                 \o PrLines(SortedDesc(other_prs, CreatedOrder(other_prs)))
            ELSE <<>>)

\* the JuliaDynamics branch (flagship CriticalTransitions.jl) and the qojulia branch
\* (flagship SecondQuantizedAlgebra.jl), which differ in these two names only
FlagshipBlock(org, flagship, prs) ==
    LET flagship_prs == SelectSeq(prs, LAMBDA pr : RepoName(pr) = flagship)
        other_prs == SelectSeq(prs, LAMBDA pr : RepoName(pr) # flagship)
        recent_prs == Take(SortedDesc(flagship_prs, CreatedOrder(flagship_prs)), FlagshipLimit)
    IN  (IF flagship_prs # <<>>
         THEN <<[kind |-> "flagship", repo |-> flagship, n |-> Len(flagship_prs)],
                Blank,
                [kind |-> "flagship recent", repo |-> flagship]>>
              \o PrLines(recent_prs) \o <<Blank>>
         ELSE <<>>)
        \o (IF other_prs # <<>>
            THEN <<[kind |-> "other contributions", org |-> org], Blank>>
                 \o PrLines(SortedDesc(other_prs, CreatedOrder(other_prs)))
            ELSE <<>>)

\* the body of the loop over the organizations
OrgBlock(org, prs) ==
    <<[kind |-> "h3 org", org |-> org, n |-> Len(prs)], Blank>>
    \o (IF org = S_QuantumEngineeredSystems THEN SummaryBlock(prs)
        ELSE IF org = S_JuliaDynamics
             THEN FlagshipBlock(org, S_CriticalTransitions_jl, prs)
        ELSE IF org = S_qojulia
             THEN FlagshipBlock(org, S_SecondQuantizedAlgebra_jl, prs)
        ELSE PrLines(SortedDesc(prs, CreatedOrder(prs))))
    \o <<Blank>>

\* load_database of generate_contributions.py returns None unless both collections exist
DatabaseFound(exists) == exists

\* sorted(org_prs.items(), key=lambda x: len(x[1]), reverse=True)
SortedOrgs(groups) == SortedDesc(groups, LenOrder(groups))

\* the loop over the organizations, largest first
OrgBlocks(orgs) == Flatten([i \in 1..Len(orgs) |-> OrgBlock(orgs[i].org, orgs[i].prs)])

\* the lines from the first header to the recent contributions and the projects
HeadSection(external, repos, t) ==
    <<TextLine("h1"), Blank, TextLine("note"), Blank,
      [kind |-> "generated", n |-> t], Blank,
      TextLine("h2 recent"), Blank>>
    \o PrLines(Take(external, RecentLimit))
    \o <<Blank>>
    \o ProjectsSection(repos)

\* the lines of all merged contributions and the footer
TailSection(external) ==
    <<TextLine("h2 all merged"), Blank>>
    \o OrgBlocks(SortedOrgs(org_prs(external)))
    \o <<TextLine("---"), Blank, TextLine("footer")>>

\* md once every line is appended; an exception raised on the way ends the call
ReturnMd(md) == IF RaisedLine \in Range(md) THEN RaisedDoc ELSE md

AllSections(external, repos, t) ==
    ReturnMd(HeadSection(external, repos, t) \o TailSection(external))

\* generate_markdown on the database (exists, all_prs, repos) at time t: the list md,
\* NoneDoc when the database is not found, RaisedDoc when an exception ends the call
generate_markdown(exists, all_prs, all_repos, t) ==
    IF ~DatabaseFound(exists) THEN NoneDoc
    ELSE AllSections(external_closed_prs(all_prs),
                     SelectSeq(all_repos, LAMBDA repo : ~Get(repo, "isFork", FALSE)),
                     t)

-----------------------------------------------------------------------------
(* Records the data source can return *)

\* a PR record of `gh search prs --json title,url,repository,createdAt,state`
\* (closedAt, which no script reads, is left out)
PR(url, title, owner, name, createdAt, state) ==
    [url |-> url, title |-> title,
     repository |-> [name |-> name, nameWithOwner |-> owner \o S_slash \o name],
     createdAt |-> createdAt, state |-> state]

\* a repository record of `gh repo list --json name,description,url,isPrivate,
\* createdAt,stargazerCount,isFork`
Repo(name, description, stars, createdAt, isPrivate, isFork) ==
    [name |-> name, description |-> description,
     url |-> <<"h", "/">> \o name,
     isPrivate |-> isPrivate, createdAt |-> createdAt,
     stargazerCount |-> stars, isFork |-> isFork]

\* the timestamp 2024-<month>-<day>T10:00:00Z
Ts(month, day) ==
    <<"2", "0", "2", "4", "-">> \o month \o <<"-">> \o day
    \o <<"T", "1", "0", ":", "0", "0", ":", "0", "0", "Z">>


\* PRs the closed-PR search can return: a merged PR to a flagship repository and a
\* closed PR to an own repository
ClosedPool ==
    { PR(<<"u", "1">>, <<"A">>, S_JuliaDynamics, S_CriticalTransitions_jl,
         Ts(<<"0", "3">>, <<"0", "5">>), S_merged),
      PR(<<"u", "2">>, <<"B">>, S_oameye, <<"x">>,
         Ts(<<"0", "4">>, <<"0", "1">>), S_closed) }

\* PRs the open-PR search can return: the second PR again, reopened between the two
\* searches
OpenPool ==
    { PR(<<"u", "2">>, <<"B">>, S_oameye, <<"x">>,
         Ts(<<"0", "4">>, <<"0", "1">>), S_open) }

\* repositories the repository listing can return: a site, and the same site with
\* more stars and a null description
RepoPool ==
    { Repo(S_hugo, <<"g", "u", "i", "d", "e">>, 1,
           Ts(<<"0", "1">>, <<"0", "1">>), FALSE, FALSE),
      Repo(S_hugo, None, 2, Ts(<<"0", "1">>, <<"0", "1">>), FALSE, FALSE) }

\* what subprocess.run can give run_gh_command for a query whose records are in pool:
\* a non-zero exit, or exit 0 with output that is no JSON, a JSON object, or a list
GhResults(pool, n) ==
    {[returncode |-> 1, stdout |-> Garbage]}
    \cup {[returncode |-> 0, stdout |-> out] :
            out \in {Garbage, PyDict} \cup {PyList(s) : s \in SeqsUpTo(pool, n)}}

-----------------------------------------------------------------------------
(* The scripts as processes *)

UpdateScript == "update_database.py"
GenerateScript == "generate_contributions.py"
NoProc == [script |-> "", returncode |-> 0, failed |-> {}]

\* the gh commands of one update_database run that printed an error; the repository
\* listing is not run when closed_prs + open_prs raised
FailedCalls(closed_res, open_res, repos_res) ==
    (IF GhFailed(closed_res) THEN {"closed"} ELSE {})
    \cup (IF GhFailed(open_res) THEN {"open"} ELSE {})
    \cup (IF fetch_new_data(closed_res, open_res, repos_res) # Raised /\ GhFailed(repos_res)
          THEN {"repos"} ELSE {})

\* python update_database.py: update_database then save_database, exit code 0; an
\* uncaught exception ends the process with exit code 1 before anything is saved
RunUpdateDatabase(closed_res, open_res, repos_res) ==
    LET db == update_database(closed_res, open_res, repos_res)
        failed == FailedCalls(closed_res, open_res, repos_res)
    IN  IF db = Raised
        THEN /\ proc' = [script |-> UpdateScript, returncode |-> 1, failed |-> failed]
             /\ UNCHANGED <<db_exists, db_prs, db_repos, db_meta, now>>
        ELSE /\ db_exists' = TRUE
             /\ db_prs' = db.prs
             /\ db_repos' = db.repos
             /\ db_meta' = Metadata(db, now)
             /\ now' = now + 1
             /\ proc' = [script |-> UpdateScript, returncode |-> 0, failed |-> failed]

\* python generate_contributions.py: exit(1) when generate_markdown returns None,
\* exit code 1 on an uncaught exception, else contributions.md is written
WriteContributions(markdown_content) ==
    IF markdown_content = NoneDoc \/ markdown_content = RaisedDoc
    THEN /\ proc' = [script |-> GenerateScript, returncode |-> 1, failed |-> {}]
         /\ UNCHANGED contributions_md
    ELSE /\ proc' = [script |-> GenerateScript, returncode |-> 0, failed |-> {}]
         /\ contributions_md' = markdown_content

RunGenerateContributions ==
    WriteContributions(generate_markdown(db_exists, db_prs, db_repos, now))

\* run_script ignoring the exit code of the script
run_script_ignoring_returncode(result) == TRUE

\* run_script: False when the script's exit code is not 0
run_script(result) == result.returncode = 0

harness == <<existing_prs, new_prs, existing_repos, new_repos, merged, phase>>
store == <<db_exists, db_prs, db_repos, db_meta>>

Idle == pc \in {"idle", "exit"}

\* a user runs python update_database.py
Refresh ==
    /\ Idle /\ now <= MaxClock
    /\ \E closed_res \in GhResults(ClosedPool, MaxFetch),
          open_res \in GhResults(OpenPool, MaxFetch),
          repos_res \in GhResults(RepoPool, MaxRepoFetch) :
            RunUpdateDatabase(closed_res, open_res, repos_res)
    /\ UNCHANGED <<contributions_md, pc, steps, exit_code, harness>>

\* a user runs python generate_contributions.py
Render ==
    /\ Idle
    /\ RunGenerateContributions
    /\ UNCHANGED <<store, now, pc, steps, exit_code, harness>>

\* a user runs python update_contributions.py
MainStart ==
    /\ Idle /\ now <= MaxClock
    /\ pc' = "step1" /\ steps' = <<>> /\ exit_code' = NoExit
    /\ UNCHANGED <<store, contributions_md, now, proc, harness>>

\* main, step 1: run_script("update_database.py"), return 1 when it failed
MainStep1 ==
    /\ pc = "step1"
    /\ \E closed_res \in GhResults(ClosedPool, MaxFetch),
          open_res \in GhResults(OpenPool, MaxFetch),
          repos_res \in GhResults(RepoPool, MaxRepoFetch) :
            RunUpdateDatabase(closed_res, open_res, repos_res)
    /\ steps' = Append(steps, [script |-> UpdateScript, returncode |-> proc'.returncode])
    /\ IF ~run_script(proc')
       THEN pc' = "exit" /\ exit_code' = 1
       ELSE pc' = "step2" /\ exit_code' = exit_code
    /\ UNCHANGED <<contributions_md, harness>>

\* main, step 2: run_script("generate_contributions.py"), return 1 when it failed,
\* else 0
MainStep2 ==
    /\ pc = "step2"
    /\ RunGenerateContributions
    /\ steps' = Append(steps, [script |-> GenerateScript, returncode |-> proc'.returncode])
    /\ pc' = "exit"
    /\ exit_code' = IF ~run_script(proc') THEN 1 ELSE 0
    /\ UNCHANGED <<store, now, harness>>

Init ==
    /\ db_exists = FALSE /\ db_prs = <<>> /\ db_repos = <<>> /\ db_meta = NoMeta
    /\ contributions_md = NoFile
    /\ now = 1
    /\ proc = NoProc
    /\ pc = "idle" /\ steps = <<>> /\ exit_code = NoExit
    /\ existing_prs = <<>> /\ new_prs = <<>> /\ existing_repos = <<>> /\ new_repos = <<>>
    /\ merged = <<>> /\ phase = "machine"

Next == Refresh \/ Render \/ MainStart \/ MainStep1 \/ MainStep2

Spec == Init /\ [][Next]_vars

-----------------------------------------------------------------------------
(* Properties of the refresh machine *)

Urls(prs) == {Get(prs[i], "url", None) : i \in 1..Len(prs)}
Names(repos) == {Get(repos[i], "name", None) : i \in 1..Len(repos)}

DistinctUrls(prs) ==
    \A i, j \in 1..Len(prs) : i # j => Get(prs[i], "url", None) # Get(prs[j], "url", None)

DistinctNames(repos) ==
    \A i, j \in 1..Len(repos) :
        i # j => Get(repos[i], "name", None) # Get(repos[j], "name", None)

\* C1: after any sequence of refresh runs from an empty store, no two stored PR
\* records share a URL (merge_prs returns the union of the URLs without duplicates).
C1_StoredPrUrlsDistinct == DistinctUrls(db_prs)

\* C2: after any sequence of refresh runs from an empty store, no two stored
\* repository records share a short name.
C2_StoredRepoNamesDistinct == DistinctNames(db_repos)

\* C3: a refresh in which a gh call failed (non-zero exit or unparseable output) ends
\* with a non-zero exit code and leaves the PR collection, the repository collection
\* and the metadata as they were.
C3_FailedFetchFailsRefresh ==
    [][(proc'.script = UpdateScript /\ proc'.failed # {})
          => (proc'.returncode # 0 /\ UNCHANGED store)]_vars

\* C4: in an update run render is started only after a refresh that succeeded; a
\* failed refresh ends the run with a non-zero exit code and no render; a failed
\* render gives a non-zero exit code; the exit code is 0 only when refresh and then
\* render both succeeded.
C4_UpdateRunsRenderOnlyAfterRefresh ==
    /\ \A i \in 1..Len(steps) :
          steps[i].script = GenerateScript
              => i = 2 /\ steps[1] = [script |-> UpdateScript, returncode |-> 0]
    /\ (Len(steps) >= 1 /\ steps[1].returncode # 0)
          => Len(steps) = 1 /\ pc = "exit" /\ exit_code # 0 /\ exit_code # NoExit
    /\ (Len(steps) = 2 /\ steps[2].returncode # 0)
          => pc = "exit" /\ exit_code # 0 /\ exit_code # NoExit
    /\ exit_code = 0
          => /\ pc = "exit"
             /\ steps = <<[script |-> UpdateScript, returncode |-> 0],
                          [script |-> GenerateScript, returncode |-> 0]>>
    /\ (pc = "exit" /\ steps # <<>>) => exit_code # NoExit

\* an update run whose refresh succeeded and whose render failed
C4_Witness ==
    /\ pc = "exit" /\ exit_code = 1
    /\ steps = <<[script |-> UpdateScript, returncode |-> 0],
                 [script |-> GenerateScript, returncode |-> 1]>>

-----------------------------------------------------------------------------
(* The merge functions on drawn arguments *)

\* PR records drawn as arguments of merge_prs: two of them share a URL
MergePrPool == ClosedPool \cup OpenPool

\* repository records drawn as arguments of merge_repos: a full record, a record of
\* the same name that holds only some fields, with empty and zero values, and a
\* record of another name
MergeRepoPool ==
    { Repo(S_hugo, <<"g", "u", "i", "d", "e">>, 1,
           Ts(<<"0", "1">>, <<"0", "1">>), FALSE, FALSE),
      [name |-> S_hugo, description |-> <<>>, stargazerCount |-> 0],
      Repo(<<"a", ".", "j", "l">>, <<>>, 0, Ts(<<"0", "2">>, <<"0", "1">>), FALSE, FALSE) }

machine == <<db_exists, db_prs, db_repos, db_meta, contributions_md, now, proc, pc,
             steps, exit_code>>

MachineAtRest ==
    /\ db_exists = FALSE /\ db_prs = <<>> /\ db_repos = <<>> /\ db_meta = NoMeta
    /\ contributions_md = NoFile
    /\ now = 1
    /\ proc = NoProc
    /\ pc = "idle" /\ steps = <<>> /\ exit_code = NoExit

InitMerge ==
    /\ MachineAtRest
    /\ merged = <<>>
    /\ \/ /\ phase = "prs"
          /\ existing_prs \in SeqsUpTo(MergePrPool, MaxMerge)
          /\ new_prs \in SeqsUpTo(MergePrPool, MaxMerge)
          /\ existing_repos = <<>> /\ new_repos = <<>>
       \/ /\ phase = "repos"
          /\ existing_repos \in SeqsUpTo(MergeRepoPool, MaxMerge)
          /\ new_repos \in SeqsUpTo(MergeRepoPool, MaxMerge)
          /\ existing_prs = <<>> /\ new_prs = <<>>

\* db['prs'] = merge_prs(db['prs'], new_prs)
MergePrs ==
    /\ phase = "prs"
    /\ merged' = merge_prs(existing_prs, new_prs)
    /\ phase' = "prs merged"
    /\ UNCHANGED <<machine, existing_prs, new_prs, existing_repos, new_repos>>

\* the same new_prs merged into the result once more
MergePrsAgain ==
    /\ phase = "prs merged"
    /\ merged' = merge_prs(merged, new_prs)
    /\ phase' = "prs merged twice"
    /\ UNCHANGED <<machine, existing_prs, new_prs, existing_repos, new_repos>>

\* db['repos'] = merge_repos(db['repos'], new_repos)
MergeRepos ==
    /\ phase = "repos"
    /\ merged' = merge_repos(existing_repos, new_repos)
    /\ phase' = "repos merged"
    /\ UNCHANGED <<machine, existing_prs, new_prs, existing_repos, new_repos>>

NextMerge == MergePrs \/ MergePrsAgain \/ MergeRepos

SpecMerge == InitMerge /\ [][NextMerge]_vars

\* C5: merge_prs returns the existing records unchanged and in their order, followed
\* by added ones: the result is at least as long as existing, and as long exactly
\* when every incoming URL is among the existing URLs.
C5_MergePrsKeepsExisting ==
    phase = "prs merged" =>
        /\ Len(merged) >= Len(existing_prs)
        /\ SubSeq(merged, 1, Len(existing_prs)) = existing_prs
        /\ (Len(merged) = Len(existing_prs)) <=> (Urls(new_prs) \subseteq Urls(existing_prs))

\* a merge that dropped an incoming record of a stored URL and added another
C5_Witness ==
    /\ phase = "prs merged"
    /\ existing_prs # <<>>
    /\ Len(merged) = Len(existing_prs) + 1
    /\ \E k \in 1..Len(new_prs) :
          /\ Get(new_prs[k], "url", None) \in Urls(existing_prs)
          /\ new_prs[k] \notin Range(existing_prs)

\* C6: merging the same incoming list a second time gives what merging it once gave,
\* and the result holds no URL twice (for a store that held none twice).
C6_MergePrsIdempotentNoDuplicates ==
    (phase = "prs merged twice" /\ DistinctUrls(existing_prs)) =>
        /\ merged = merge_prs(existing_prs, new_prs)
        /\ DistinctUrls(merged)

Max(S) == CHOOSE x \in S : \A y \in S : y <= x

\* C7: merge_repos keeps the number and the positions of the existing records; the
\* record its lookup holds for a name takes every field of the incoming records of
\* that name (the last one that has the field, empty and zero values included) and
\* keeps its other fields; records of new names follow, in incoming order.
C7_MergeReposUpdatesInPlace ==
    phase = "repos merged" =>
        LET E == existing_repos
            N == new_repos
            M == merged
            appended == SelectSeq(N, LAMBDA r : Get(r, "name", None) \notin Names(E))
            Held(i) == \A j \in (i + 1)..Len(E) : E[j].name # E[i].name
            Matching(i) == {k \in 1..Len(N) : N[k].name = E[i].name}
        IN  /\ Len(M) = Len(E) + Len(appended)
            /\ SubSeq(M, Len(E) + 1, Len(M)) = appended
            /\ \A i \in 1..Len(E) :
                  IF Held(i) /\ Matching(i) # {}
                  THEN /\ DOMAIN M[i] = DOMAIN E[i] \cup UNION {DOMAIN N[k] : k \in Matching(i)}
                       /\ \A f \in DOMAIN M[i] :
                             LET ks == {k \in Matching(i) : f \in DOMAIN N[k]}
                             IN  M[i][f] = IF ks = {} THEN E[i][f] ELSE N[Max(ks)][f]
                  ELSE M[i] = E[i]

\* a merge that emptied the description of a stored record, kept its url, which the
\* incoming record does not have, and appended a record of a new name
C7_Witness ==
    /\ phase = "repos merged"
    /\ DistinctNames(existing_repos)
    /\ Len(merged) = Len(existing_repos) + 1
    /\ \E i \in 1..Len(existing_repos), k \in 1..Len(new_repos) :
          /\ new_repos[k].name = existing_repos[i].name
          /\ "url" \notin DOMAIN new_repos[k]
          /\ existing_repos[i].description # <<>>
          /\ merged[i].description = <<>>
          /\ merged[i].url = existing_repos[i].url

-----------------------------------------------------------------------------
(* categorize_repositories on drawn repository lists *)

\* repositories drawn for categorize_repositories: one per rule and per way round it
CatRepoPool ==
    { \* a package whose description holds a documentation keyword
      Repo(<<"a", ".", "j", "l">>, <<"g", "u", "i", "d", "e">>, 3,
           Ts(<<"0", "1">>, <<"0", "1">>), FALSE, FALSE),
      \* a documentation keyword in the name
      Repo(<<"d", "o", "c", "s">>, <<>>, 0, Ts(<<"0", "1">>, <<"0", "2">>), FALSE, FALSE),
      \* a research keyword in the name, in upper case, and a tool keyword
      Repo(<<"H", "o", "p", "f">>, <<"t", "o", "o", "l">>, 1,
           Ts(<<"0", "1">>, <<"0", "3">>), FALSE, FALSE),
      \* a tool keyword in the description, in upper case
      Repo(<<"x">>, <<"E", "n", "g", "i", "n", "e">>, 0,
           Ts(<<"0", "1">>, <<"0", "4">>), FALSE, FALSE),
      \* a site, the description missing
      [name |-> S_hugo, url |-> <<"h">>, isPrivate |-> FALSE, isFork |-> FALSE,
       createdAt |-> Ts(<<"0", "1">>, <<"0", "5">>), stargazerCount |-> 0],
      \* no rule: the site rule is case sensitive
      Repo(<<"H", "u", "g", "o">>, <<>>, 0, Ts(<<"0", "1">>, <<"0", "6">>), FALSE, FALSE),
      \* private
      Repo(<<"z", "o", "t", "e", "r", "o">>, <<>>, 0,
           Ts(<<"0", "1">>, <<"0", "7">>), TRUE, FALSE),
      \* a fork
      Repo(<<"p", "a", "p", "e", "r">>, <<>>, 0,
           Ts(<<"0", "1">>, <<"0", "8">>), FALSE, TRUE),
      \* a null description
      Repo(S_website, None, 0, Ts(<<"0", "1">>, <<"0", "9">>), FALSE, FALSE) }

\* a database as save_database leaves it
SavedDatabase(prs, repos) ==
    /\ db_exists = TRUE /\ db_prs = prs /\ db_repos = repos
    /\ db_meta = Metadata([prs |-> prs, repos |-> repos], 1)
    /\ now = 2

InitCategorize ==
    /\ \E repos \in SeqsUpTo(CatRepoPool, MaxCatRepos) : SavedDatabase(<<>>, repos)
    /\ contributions_md = NoFile
    /\ proc = NoProc
    /\ pc = "idle" /\ steps = <<>> /\ exit_code = NoExit
    /\ existing_prs = <<>> /\ new_prs = <<>> /\ existing_repos = <<>> /\ new_repos = <<>>
    /\ merged = Raised /\ phase = "repos drawn"

\* categorized_repos = categorize_repositories(repos)
Categorize ==
    /\ phase = "repos drawn"
    /\ merged' = categorize_repositories(db_repos)
    /\ phase' = "categorized"
    /\ UNCHANGED <<machine, existing_prs, new_prs, existing_repos, new_repos>>

NextCategorize == Categorize

SpecCategorize == InitCategorize /\ [][NextCategorize]_vars

\* the five buckets in the priority order of their rules
Priority ==
    <<"Julia Packages", "Documentation & Tutorials", "Research Projects",
      "Tools & Utilities", "Personal Projects">>

NameOrDescriptionHas(repo, kws) ==
    \E k \in 1..Len(kws) :
        \/ Contains(Lower(repo.name), kws[k])
        \/ Contains(Lower(Get(repo, "description", <<>>)), kws[k])

\* the rule of bucket Priority[n]
Rule(n, repo) ==
    CASE n = 1 -> EndsWith(repo.name, S_jl)
      [] n = 2 -> NameOrDescriptionHas(repo, DocKeywords)
      [] n = 3 -> NameOrDescriptionHas(repo, ResearchKeywords)
      [] n = 4 -> NameOrDescriptionHas(repo, ToolKeywords)
      [] n = 5 -> \/ Contains(repo.name, S_github_io)
                  \/ Contains(repo.name, S_website)
                  \/ Contains(repo.name, S_hugo)

Skipped(repo) == Get(repo, "isPrivate", FALSE) \/ Get(repo, "isFork", FALSE)

\* C8: a repository is in bucket Priority[n] exactly when it is neither private nor a
\* fork and n is the first rule it matches; so it is in at most one bucket, and in
\* none when it is private, a fork, or matches no rule.
C8_CategorizeFirstMatch ==
    (phase = "categorized" /\ merged # Raised) =>
        \A i \in 1..Len(db_repos) :
            LET repo == db_repos[i]
                buckets == {n \in 1..5 : repo \in Range(merged[Priority[n]])}
            IN  /\ Cardinality(buckets) <= 1
                /\ \A n \in 1..5 :
                      n \in buckets <=>
                          /\ ~Skipped(repo)
                          /\ Rule(n, repo)
                          /\ \A m \in 1..(n - 1) : ~Rule(m, repo)

\* a package whose description matches the documentation rule, a repository of no
\* rule and a fork were categorized
C8_Witness ==
    /\ phase = "categorized" /\ merged # Raised
    /\ \E r \in Range(db_repos) :
          /\ Rule(1, r) /\ Rule(2, r)
          /\ r \in Range(merged["Julia Packages"])
          /\ r \notin Range(merged["Documentation & Tutorials"])
    /\ \E r \in Range(db_repos) : Skipped(r) \/ \A n \in 1..5 : ~Rule(n, r)

-----------------------------------------------------------------------------
(* generate_contributions.py on drawn databases *)

Day(d) == Ts(<<"0", "3">>, <<"0", d>>)

\* merged PRs to flagship repositories drawn for the report: four to
\* CriticalTransitions.jl of JuliaDynamics, two of them of one timestamp, and one to
\* SecondQuantizedAlgebra.jl of qojulia
FlagshipPrPool ==
    { PR(<<"u", "1">>, <<"A">>, S_JuliaDynamics, S_CriticalTransitions_jl, Day("1"), S_merged),
      PR(<<"u", "2">>, <<"B">>, S_JuliaDynamics, S_CriticalTransitions_jl, Day("2"), S_merged),
      PR(<<"u", "3">>, <<"C">>, S_JuliaDynamics, S_CriticalTransitions_jl, Day("3"), S_merged),
      PR(<<"u", "4">>, <<"D">>, S_JuliaDynamics, S_CriticalTransitions_jl, Day("3"), S_merged),
      PR(<<"u", "6">>, <<"F">>, S_qojulia, S_SecondQuantizedAlgebra_jl, Day("2"), S_merged) }

\* PR records drawn for the report: merged PRs to the flagship repository and to
\* another repository of JuliaDynamics, to the flagship repository of qojulia, to a
\* QuantumEngineeredSystems repository and to a repository of another organization,
\* a merged PR to an own repository, and an open and a closed PR to flagship
\* repositories
RenderPrPool ==
    { PR(<<"u", "1">>, <<"A">>, S_JuliaDynamics, S_CriticalTransitions_jl, Day("1"), S_merged),
      PR(<<"u", "3">>, <<"C">>, S_JuliaDynamics, S_CriticalTransitions_jl, Day("3"), S_merged),
      PR(<<"u", "5">>, <<"E">>, S_JuliaDynamics, <<"O", ".", "j", "l">>, Day("4"), S_merged),
      PR(<<"u", "6">>, <<"F">>, S_qojulia, S_SecondQuantizedAlgebra_jl, Day("2"), S_merged),
      PR(<<"u", "7">>, <<"G">>, S_QuantumEngineeredSystems, <<"H", ".", "j", "l">>,
         Day("1"), S_merged),
      PR(<<"u", "8">>, <<"H">>, <<"z">>, <<"y">>, Day("5"), S_merged),
      PR(<<"u", "9">>, <<"I">>, S_oameye, <<"x">>, Day("9"), S_merged),
      PR(<<"v", "1">>, <<"J">>, S_JuliaDynamics, S_CriticalTransitions_jl, Day("8"), S_open),
      PR(<<"v", "2">>, <<"K">>, S_qojulia, S_SecondQuantizedAlgebra_jl, Day("7"), S_closed) }

\* PR records of the two flagship organizations drawn for the report: a merged PR to
\* each flagship repository, merged PRs to other repositories of JuliaDynamics (two
\* to one repository, two of one timestamp) and of qojulia, and an open PR to another
\* repository of JuliaDynamics
OtherPrPool ==
    { PR(<<"u", "1">>, <<"A">>, S_JuliaDynamics, S_CriticalTransitions_jl, Day("3"), S_merged),
      PR(<<"w", "1">>, <<"L">>, S_JuliaDynamics, <<"O", ".", "j", "l">>, Day("2"), S_merged),
      PR(<<"w", "2">>, <<"M">>, S_JuliaDynamics, <<"O", ".", "j", "l">>, Day("4"), S_merged),
      PR(<<"w", "3">>, <<"N">>, S_JuliaDynamics, <<"P", ".", "j", "l">>, Day("4"), S_merged),
      PR(<<"w", "4">>, <<"O">>, S_JuliaDynamics, <<"P", ".", "j", "l">>, Day("9"), S_open),
      PR(<<"u", "6">>, <<"F">>, S_qojulia, S_SecondQuantizedAlgebra_jl, Day("2"), S_merged),
      PR(<<"w", "5">>, <<"P">>, S_qojulia, <<"Q", ".", "j", "l">>, Day("5"), S_merged) }

\* external merged PRs drawn with optional fields missing: one without a title, one
\* without a URL, and one with both
FieldPrPool ==
    { [url |-> <<"f", "1">>,
       repository |-> [name |-> <<"y">>, nameWithOwner |-> <<"z", "/", "y">>],
       createdAt |-> Day("1"), state |-> S_merged],
      [title |-> <<"T">>,
       repository |-> [name |-> <<"y">>, nameWithOwner |-> <<"z", "/", "y">>],
       createdAt |-> Day("2"), state |-> S_merged],
      PR(<<"f", "3">>, <<"U">>, <<"z">>, <<"y">>, Day("3"), S_merged) }

\* repositories drawn with the description missing, null or present; none is private
\* or a fork, and each matches a rule of categorize_repositories by its name
FieldRepoPool ==
    { \* a site, the description missing
      [name |-> S_hugo, url |-> <<"h">>, isPrivate |-> FALSE, isFork |-> FALSE,
       createdAt |-> Ts(<<"0", "1">>, <<"0", "5">>), stargazerCount |-> 0],
      \* a site, the description null
      Repo(S_website, None, 0, Ts(<<"0", "1">>, <<"0", "9">>), FALSE, FALSE),
      \* a package, the description null
      Repo(<<"b", ".", "j", "l">>, None, 2, Ts(<<"0", "1">>, <<"0", "3">>), FALSE, FALSE),
      \* a name with the second documentation keyword, the description null
      Repo(<<"d", "o", "c", "s">>, None, 0, Ts(<<"0", "1">>, <<"0", "2">>), FALSE, FALSE),
      \* a package with a description
      Repo(<<"a", ".", "j", "l">>, <<"g", "u", "i", "d", "e">>, 3,
           Ts(<<"0", "1">>, <<"0", "1">>), FALSE, FALSE) }

\* the repository collection of the drawn databases
RenderRepos ==
    << Repo(<<"a", ".", "j", "l">>, <<"g", "u", "i", "d", "e">>, 3,
            Ts(<<"0", "1">>, <<"0", "1">>), FALSE, FALSE) >>

InitRender ==
    /\ \/ \E prs \in SeqsUpTo(RenderPrPool, MaxRenderPRs)
                       \cup SeqsUpTo(FlagshipPrPool, MaxFlagshipPRs)
                       \cup SeqsUpTo(OtherPrPool, MaxOtherPRs) :
             SavedDatabase(prs, RenderRepos)
       \/ \E prs \in SeqsUpTo(FieldPrPool, MaxFieldPRs),
             repos \in SeqsUpTo(FieldRepoPool, MaxFieldRepos) :
             SavedDatabase(prs, repos)
    /\ contributions_md = NoFile
    /\ proc = NoProc
    /\ pc = "idle" /\ steps = <<>> /\ exit_code = NoExit
    /\ existing_prs = <<>> /\ new_prs = <<>> /\ existing_repos = <<>> /\ new_repos = <<>>
    /\ merged = <<>> /\ phase = "database drawn"

NextRender == Render

SpecRender == InitRender /\ [][NextRender]_vars

\* generate_contributions.py ran and wrote contributions.md
Rendered == proc.script = GenerateScript /\ proc.returncode = 0

\* an external merged PR
ExternalMerged(pr) ==
    /\ ~StartsWith(NameWithOwner(pr, <<>>), S_oameye_slash)
    /\ Get(pr, "state", None) = S_merged

\* the lines of PRs of the document, in its Recent section and organization groups
PrLinesOf(md) == {md[i] : i \in {j \in 1..Len(md) : md[j].kind = "pr"}}

\* C9: no PR of an own repository (full name starting with "oameye/") and no PR whose
\* state is not "merged" has a line in the rendered document.
C9_OnlyExternalMergedRendered ==
    Rendered =>
        /\ \A line \in PrLinesOf(contributions_md) :
              ~StartsWith(line.repo_name, S_oameye_slash)
        /\ \A i \in 1..Len(db_prs) :
              ~ExternalMerged(db_prs[i]) => PrLine(db_prs[i]) \notin PrLinesOf(contributions_md)

\* a database with an own merged PR, an open PR and an external merged PR was rendered
C9_Witness ==
    /\ Rendered
    /\ PrLinesOf(contributions_md) # {}
    /\ \E i \in 1..Len(db_prs) :
          StartsWith(NameWithOwner(db_prs[i], <<>>), S_oameye_slash)
          /\ db_prs[i].state = S_merged
    /\ \E i \in 1..Len(db_prs) : db_prs[i].state = S_open

\* the run of PR lines of md that starts at line i
RECURSIVE PrRun(_, _)
PrRun(md, i) ==
    IF i > Len(md) THEN <<>>
    ELSE IF md[i].kind # "pr" THEN <<>>
    ELSE <<md[i]>> \o PrRun(md, i + 1)

\* the PRs listed individually in the block of a flagship repository
FlagshipListed(md, flagship) ==
    LET header == [kind |-> "flagship recent", repo |-> flagship]
    IN  IF header \in Range(md)
        THEN PrRun(md, (CHOOSE i \in 1..Len(md) : md[i] = header) + 1)
        ELSE <<>>

\* the stored external merged PRs of org to its flagship repository
FlagshipPrs(org, flagship) ==
    SelectSeq(db_prs, LAMBDA pr :
        ExternalMerged(pr) /\ OrgName(pr) = org /\ RepoName(pr) = flagship)

\* the flagship block of org lists the `limit` most recent of the merged PRs to the
\* flagship repository (all when there are fewer), most recent first: the k-th line
\* is the line of such a PR, no later than the line before it, and fewer than k such
\* PRs are later than it
ListsMostRecent(org, flagship, limit) ==
    LET prs == FlagshipPrs(org, flagship)
        listed == FlagshipListed(contributions_md, flagship)
    IN  /\ Len(listed) = Min(limit, Len(prs))
        /\ \A k \in 1..Len(listed) :
              /\ \E i \in 1..Len(prs) : listed[k] = PrLine(prs[i])
              /\ k > 1 => ~StrLess(listed[k - 1].created_date, listed[k].created_date)
              /\ Cardinality({i \in 1..Len(prs) :
                    StrLess(listed[k].created_date, created_date(CreatedAt(prs[i])))}) < k

\* C10 as stated: the flagship blocks of JuliaDynamics and qojulia list the 5 most
\* recent merged PRs to the flagship repository, most recent first.
C10_FlagshipListsFiveMostRecent ==
    Rendered =>
        /\ ListsMostRecent(S_JuliaDynamics, S_CriticalTransitions_jl, 5)
        /\ ListsMostRecent(S_qojulia, S_SecondQuantizedAlgebra_jl, 5)

\* C10 as amended: the flagship blocks of JuliaDynamics and qojulia list the 3 most
\* recent merged PRs to the flagship repository, most recent first (all of them when
\* there are fewer than 3).
C10_FlagshipListsThreeMostRecent ==
    Rendered =>
        /\ ListsMostRecent(S_JuliaDynamics, S_CriticalTransitions_jl, 3)
        /\ ListsMostRecent(S_qojulia, S_SecondQuantizedAlgebra_jl, 3)

\* four different merged PRs to CriticalTransitions.jl were rendered, the oldest
\* stored first
C10_Witness ==
    /\ Rendered
    /\ Len(FlagshipPrs(S_JuliaDynamics, S_CriticalTransitions_jl)) = 4
    /\ Cardinality(Range(FlagshipPrs(S_JuliaDynamics, S_CriticalTransitions_jl))) = 4
    /\ Len(FlagshipListed(contributions_md, S_CriticalTransitions_jl)) = 3

\* the stored external merged PRs of org to repositories other than its flagship
OtherPrs(org, flagship) ==
    SelectSeq(db_prs, LAMBDA pr :
        ExternalMerged(pr) /\ OrgName(pr) = org /\ RepoName(pr) # flagship)

\* the PRs listed individually under the other contributions of org
OtherListed(md, org) ==
    LET header == [kind |-> "other contributions", org |-> org]
    IN  IF header \in Range(md)
        THEN PrRun(md, (CHOOSE i \in 1..Len(md) : md[i] = header) + 2)
        ELSE <<>>

\* the counts the document reports for the flagship repository
FlagshipCounts(md, flagship) ==
    {md[i].n : i \in {j \in 1..Len(md) : md[j].kind = "flagship" /\ md[j].repo = flagship}}

\* the one-to-one assignments of the positions 1..n to the positions 1..n
Bijections(n) == {f \in [1..n -> 1..n] : \A i, j \in 1..n : f[i] = f[j] => i = j}

\* the block of org reports as count of its flagship repository the number of stored
\* external merged PRs to it (no count when there is none), and the lines under its
\* other contributions are, one to one, the lines of the stored external merged PRs
\* of org to its other repositories, none created later than one listed before it
CountsFlagshipListsOthers(org, flagship) ==
    LET flagship_prs == FlagshipPrs(org, flagship)
        prs == OtherPrs(org, flagship)
        listed == OtherListed(contributions_md, org)
    IN  /\ FlagshipCounts(contributions_md, flagship)
              = IF flagship_prs = <<>> THEN {} ELSE {Len(flagship_prs)}
        /\ Len(listed) = Len(prs)
        /\ \E f \in Bijections(Len(prs)) :
              /\ \A k \in 1..Len(prs) : listed[k] = PrLine(prs[f[k]])
              /\ \A k, l \in 1..Len(prs) :
                    k < l => ~CreatedLess(prs[f[k]], prs[f[l]])

\* C11: in the block of a flagship organization (JuliaDynamics, qojulia) the count
\* reported for the flagship repository is the number of external merged PRs to that
\* repository, and every external merged PR of the organization to another
\* repository is listed individually exactly once, most recent first.
C11_FlagshipCountAndOthersListed ==
    Rendered =>
        /\ CountsFlagshipListsOthers(S_JuliaDynamics, S_CriticalTransitions_jl)
        /\ CountsFlagshipListsOthers(S_qojulia, S_SecondQuantizedAlgebra_jl)

\* a merged PR to CriticalTransitions.jl and two merged PRs to other repositories of
\* JuliaDynamics, the older one stored first, were rendered
C11_Witness ==
    /\ Rendered
    /\ Len(FlagshipPrs(S_JuliaDynamics, S_CriticalTransitions_jl)) = 1
    /\ Len(OtherPrs(S_JuliaDynamics, S_CriticalTransitions_jl)) = 2
    /\ CreatedLess(OtherPrs(S_JuliaDynamics, S_CriticalTransitions_jl)[1],
                   OtherPrs(S_JuliaDynamics, S_CriticalTransitions_jl)[2])
    /\ Len(OtherListed(contributions_md, S_JuliaDynamics)) = 2
    /\ FlagshipCounts(contributions_md, S_CriticalTransitions_jl) = {1}

\* generate_contributions.py ran on a stored database
RenderRan == proc.script = GenerateScript /\ db_exists

\* the line of a PR with the fallbacks "No title" and "#" for a missing title and URL
FallbackLine(pr) ==
    [kind |-> "pr",
     repo_name |-> pr.repository.nameWithOwner,
     title |-> IF "title" \in DOMAIN pr THEN pr.title ELSE S_No_title,
     url |-> IF "url" \in DOMAIN pr THEN pr.url ELSE S_hash,
     created_date |-> created_date(pr.createdAt)]

\* the repository with an absent description where its description is null
NullAsAbsent(repo) ==
    IF Get(repo, "description", <<>>) = None
    THEN [k \in DOMAIN repo \ {"description"} |-> repo[k]]
    ELSE repo

\* a repository the report is to show: neither private nor a fork, and of some rule
Qualifies(repo) == ~Skipped(repo) /\ \E n \in 1..5 : Rule(n, NullAsAbsent(repo))

\* the repositories that have a block in the document
RenderedRepos(md) ==
    {[name |-> md[i].name, url |-> md[i].url] :
        i \in {j \in 1..Len(md) : md[j].kind = "repo"}}

\* C12: building the report does not fail and drops no qualifying record over a
\* missing optional field: an external merged PR without a title has a line with
\* "No title", one without a URL a line with "#", and a repository that is neither
\* private nor a fork and matches a rule has its block also when its description is
\* absent or null.
C12_MissingOptionalFieldsNeverFatal ==
    RenderRan =>
        /\ Rendered
        /\ \A i \in 1..Len(db_prs) :
              ExternalMerged(db_prs[i]) =>
                  FallbackLine(db_prs[i]) \in PrLinesOf(contributions_md)
        /\ \A i \in 1..Len(db_repos) :
              Qualifies(db_repos[i]) =>
                  [name |-> db_repos[i].name, url |-> db_repos[i].url]
                      \in RenderedRepos(contributions_md)

=============================================================================
